---- MODULE Spec2Model ----
(***************************************************************************)
(* Starlight: the rate-limiting middleware (RateLimitMiddleware.dispatch   *)
(* over RedisCache), the tag-based cache (AdvancedCacheManager), the users *)
(* table with the auth endpoints and dependencies, and the middleware      *)
(* stack.                                                                  *)
(*                                                                         *)
(* Spec      : concurrent requests through RateLimitMiddleware.dispatch.   *)
(*             The coroutine is cut at its two cache calls: the arrival,   *)
(*             the await of cache.get with the comparison, and the await   *)
(*             of cache.set with everything that follows it (call_next     *)
(*             touches no state of the limiter).                           *)
(* SpecCache : sequences of AdvancedCacheManager operations on one Redis,  *)
(*             each operation taken whole, a Redis command of it possibly  *)
(*             raising.                                                    *)
(* SpecClient: RedisCache and CacheManager.invalidate_pattern called       *)
(*             directly, the store connected or not, reachable or not.     *)
(* SpecAuth  : register, login and oauth_callback requests served          *)
(*             concurrently, each cut at the await of its commit.          *)
(* SpecToken : the auth dependencies and the endpoints served one request  *)
(*             at a time while the clock of the token expiry runs.         *)
(* SpecPipeline : one request at a time through the middleware stack that  *)
(*             main.py builds.                                             *)
(***************************************************************************)
EXTENDS Integers, Sequences, FiniteSets, TLC

VARIABLES
    now,        \* time.time(), in seconds
    limit,      \* settings.rate_limit_per_minute
    redis,      \* RedisCache.redis is not None
    store,      \* the Redis keys of the limiter: key -> [val, exp]
    req,        \* the dispatch coroutines in flight, by slot
    last,       \* what the dispatch that returned or raised in this step produced
    started,    \* number of dispatch calls begun so far
    admitted,   \* per key: requests passed to call_next after the limit check
    fault,      \* a cache call of some request failed or was skipped
    late,       \* a cache call was made after the request's minute had rolled over
    maxConc,    \* per client: the largest number of its requests in flight at once
    refused,    \* the keys a request has been refused under (429) so far
    cnow,       \* the clock of the Redis behind AdvancedCacheManager
    mgr_redis,  \* AdvancedCacheManager._redis is not None
    entries,    \* Redis string keys "starlight:cache:<key>": key -> [val, exp]
    tagsets,    \* Redis sets "tag:<tag>": tag -> [members, exp]
    lastTags,   \* per key: the tags of the latest set() that wrote the key
    invalidated,\* the tags invalidated with no set() since
    clast,      \* the cache operation performed in this step, with what it returned
    rc_last,    \* the RedisCache / CacheManager call made in this step, with its outcome
    anow,       \* the clock the token expiry is read against, in minutes
    users,      \* the rows of the users table, in the order of their ids
    watched,    \* one access token the server has issued, kept by its holder
    areq,       \* register and oauth_callback coroutines between SELECT and commit
    alast,      \* the auth operation that ended in this step, with its response
    preq,       \* the request passing through the middleware stack, and where it is
    ptrace      \* the stages that request has entered and come back through

rlvars == <<now, limit, redis, store, req, last, started, admitted, fault, late,
            maxConc, refused>>

cvars == <<cnow, mgr_redis, entries, tagsets, lastTags, invalidated, clast>>

rcvars == <<rc_last>>

avars == <<anow, users, watched, areq, alast>>

pvars == <<preq, ptrace>>

xvars == <<rcvars, avars, pvars>>

vars == <<rlvars, cvars, xvars>>

----------------------------------------------------------------------------
(* Bounds of the model *)

MaxInFlight == 2        \* dispatch coroutines that can be suspended at once
MaxRequests == 4        \* requests begun in one behaviour
MaxLimit == 2           \* the configured limit ranges over 1..MaxLimit
MaxTicks == 2           \* advances of the clock in one behaviour

(* Program constants *)

BucketSeconds == 60     \* time.time() // 60
CounterExpire_twoBuckets == 2 * BucketSeconds   \* a counter kept for two buckets
CounterExpire == 60     \* cache.set(..., expire=60)
RetryAfter_half == BucketSeconds \div 2   \* what a Retry-After of half a bucket would be
RetryAfterSeconds == 60 \* headers={"Retry-After": "60"}
HTTP_429 == 429         \* status.HTTP_429_TOO_MANY_REQUESTS
redis_cache_ttl == 3600 \* settings.redis_cache_ttl

TickSeconds == BucketSeconds \div 2   \* the clock is observed twice a minute
MaxTime == MaxTicks * TickSeconds

Slots == 1..MaxInFlight
Clients == {"10.0.0.1"}
Paths == {"/health", "/", "/api/v1/demo"}
Minutes == 0..(MaxTime \div BucketSeconds)
Keys == Clients \X Minutes

None == [val |-> <<>>, exp |-> 0]   \* a key Redis does not hold

----------------------------------------------------------------------------
(* json.dumps / json.loads on the non-negative integers the limiter stores *)

RECURSIVE json_dumps(_)
json_dumps(n) ==
    IF n < 10 THEN <<n>> ELSE Append(json_dumps(n \div 10), n % 10)

RECURSIVE json_loads(_)
json_loads(s) ==
    IF Len(s) = 1 THEN s[1]
    ELSE 10 * json_loads(SubSeq(s, 1, Len(s) - 1)) + s[Len(s)]

(* Redis: a key is gone once its expiry time is reached *)
redis_get(key) == IF store[key].exp > now THEN store[key].val ELSE <<>>

redis_setex(key, seconds, value) ==
    [store EXCEPT ![key] = [val |-> value, exp |-> now + seconds]]

(* RedisCache.get: None (-1 here) when unconnected, on error, or on a miss *)
cache_get(key, ok) ==
    IF ~redis THEN -1
    ELSE IF ~ok THEN -1
    ELSE IF redis_get(key) # <<>> THEN json_loads(redis_get(key))
    ELSE -1

(* a RedisCache.set that would add one to the stored count instead of storing
   the value it is given *)
cache_set_incr(key, value, expire, ok) ==
    IF ~redis THEN store
    ELSE IF ~ok THEN store
    ELSE redis_setex(key, expire,
                     json_dumps(IF redis_get(key) = <<>> THEN 1
                                ELSE json_loads(redis_get(key)) + 1))

(* RedisCache.set: the store after the call; unchanged when it returns False *)
cache_set(key, value, expire, ok) ==
    IF ~redis THEN store
    ELSE IF ~ok THEN store
    ELSE redis_setex(key, IF expire # 0 THEN expire ELSE redis_cache_ttl,
                     json_dumps(value))

(* a limiter that would take a missing count for a full bucket *)
OrZero_failclosed(v) == IF v = -1 THEN limit ELSE v

(* `cache.get(key) or 0` *)
OrZero(v) == IF v = -1 \/ v = 0 THEN 0 ELSE v

----------------------------------------------------------------------------
(* RateLimitMiddleware.dispatch *)

(* a limiter that would exempt the health check only *)
ExemptPaths_healthOnly == {"/health"}

ExemptPaths == {"/health", "/"}

current_minute(t) == t \div BucketSeconds

rate_limit_key(client_ip, minute) == <<client_ip, minute>>

NoHeader == -1

Idle == [pc |-> "idle", client |-> "", path |-> "", minute |-> 0,
         current_requests |-> 0, failed |-> FALSE]

NoResult == [client |-> "", path |-> "", minute |-> 0, current_requests |-> 0,
             touched |-> FALSE, failed |-> FALSE, calls |-> 0,
             kind |-> "none", status |-> 0, retry_after |-> NoHeader,
             rl_limit |-> NoHeader, rl_remaining |-> NoHeader,
             rl_reset |-> NoHeader]

InFlight(c) == {s \in Slots : req[s].pc # "idle" /\ req[s].client = c}

FreeSlot == CHOOSE s \in Slots : req[s].pc = "idle" /\
                \A u \in Slots : req[u].pc = "idle" => s <= u

Max(a, b) == IF a >= b THEN a ELSE b

(* the status a client sees for what call_next produced *)
InnerOutcomes == {"response", "http_exception", "exception"}

InnerStatus(inner) ==
    CASE inner = "response" -> 200
      [] inner = "http_exception" -> 400
      [] OTHER -> 500

(* the coroutine returns or raises: its slot is free again *)
Finish(s, result) ==
    /\ last' = result
    /\ req' = [req EXCEPT ![s] = Idle]

Result(s, touched, ncalls, kind, status, retry, lim, rem, reset) ==
    [client |-> req[s].client, path |-> req[s].path, minute |-> req[s].minute,
     current_requests |-> req[s].current_requests, touched |-> touched,
     failed |-> req[s].failed, calls |-> ncalls, kind |-> kind,
     status |-> status, retry_after |-> retry, rl_limit |-> lim,
     rl_remaining |-> rem, rl_reset |-> reset]

(* lines 26-34: a request to a limited path arrives: client_ip, current_minute
   and rate_limit_key are computed, and the coroutine awaits cache.get *)
Begin(c, p) ==
    /\ last = NoResult
    /\ started < MaxRequests
    /\ p \notin ExemptPaths
    /\ \E s \in Slots : req[s].pc = "idle"
    /\ LET s == FreeSlot IN
       req' = [req EXCEPT ![s] =
                 [pc |-> "get", client |-> c, path |-> p,
                  minute |-> current_minute(now),
                  current_requests |-> 0, failed |-> FALSE]]
    /\ started' = started + 1
    /\ maxConc' = [maxConc EXCEPT ![c] = Max(@, Cardinality(InFlight(c)) + 1)]
    /\ last' = NoResult
    /\ UNCHANGED <<now, limit, redis, store, admitted, fault, late, refused, cvars,
                   xvars>>

(* lines 26-30: a request to /health or / is handed to call_next at once:
   `return await call_next(request)`, whatever call_next returns or raises *)
Exempt(c, p, inner) ==
    /\ last = NoResult
    /\ started < MaxRequests
    /\ p \in ExemptPaths
    /\ started' = started + 1
    /\ last' = [NoResult EXCEPT !.client = c, !.path = p, !.calls = 1,
                                !.kind = inner, !.status = InnerStatus(inner)]
    /\ UNCHANGED <<now, limit, redis, store, req, admitted, fault, late, maxConc, refused, cvars, xvars>>

(* a comparison that would let one request too many through *)
OverLimit_strict(current_requests) == current_requests > limit

(* line 40: current_requests >= settings.rate_limit_per_minute *)
OverLimit(current_requests) == current_requests >= limit

(* lines 38-51: await cache.get, then the comparison with the limit and the
   HTTPException(429, headers={"Retry-After": "60"}) *)
Get(s, ok) ==
    /\ last = NoResult
    /\ req[s].pc = "get"
    /\ LET key == rate_limit_key(req[s].client, req[s].minute)
           cur == OrZero(cache_get(key, ok))
           bad == ~redis \/ ~ok
       IN /\ fault' = (fault \/ bad)
          /\ late' = (late \/ current_minute(now) # req[s].minute)
          /\ refused' = IF OverLimit(cur) THEN refused \cup {key} ELSE refused
          /\ IF OverLimit(cur)
             THEN Finish(s, [Result(s, TRUE, 0, "http_exception", HTTP_429,
                                    RetryAfterSeconds, NoHeader, NoHeader,
                                    NoHeader)
                               EXCEPT !.current_requests = cur, !.failed = bad])
             ELSE /\ req' = [req EXCEPT ![s].pc = "set",
                                        ![s].current_requests = cur,
                                        ![s].failed = bad]
                  /\ last' = NoResult
    /\ UNCHANGED <<now, limit, redis, store, started, admitted, maxConc, cvars, xvars>>

(* a dispatch whose X-RateLimit-Remaining would not count the request itself *)
AfterSet_remainingBefore(s, failed, inner, inner2) ==
    [Result(s, TRUE, 1, "response", InnerStatus("response"), NoHeader, limit,
            Max(0, limit - req[s].current_requests),
            (req[s].minute + 1) * BucketSeconds)
       EXCEPT !.failed = failed]

(* lines 56-72: what dispatch produces once the counter is written. call_next
   is awaited; its response gets the rate-limit headers; an HTTPException is
   re-raised; any other exception lands in `except Exception`, which awaits
   call_next a second time and returns or raises whatever that one does *)
AfterSet(s, failed, inner, inner2) ==
    CASE inner = "response" ->
           [Result(s, TRUE, 1, "response", InnerStatus(inner), NoHeader, limit,
                   Max(0, limit - req[s].current_requests - 1),
                   (req[s].minute + 1) * BucketSeconds)
              EXCEPT !.failed = failed]
      [] inner = "http_exception" ->
           [Result(s, TRUE, 1, "http_exception", InnerStatus(inner), NoHeader,
                   NoHeader, NoHeader, NoHeader)
              EXCEPT !.failed = failed]
      [] OTHER ->
           [Result(s, TRUE, 2, inner2, InnerStatus(inner2), NoHeader,
                   NoHeader, NoHeader, NoHeader)
              EXCEPT !.failed = failed]

(* line 54: await cache.set(rate_limit_key, current_requests + 1, expire=60);
   the rest of the coroutine touches no state of the limiter and is taken in
   the same step *)
Set(s, ok, inner, inner2) ==
    /\ last = NoResult
    /\ req[s].pc = "set"
    /\ inner # "exception" => inner2 = "response"
    /\ LET key == rate_limit_key(req[s].client, req[s].minute)
           bad == ~redis \/ ~ok
       IN /\ store' = cache_set(key, req[s].current_requests + 1, CounterExpire, ok)
          /\ fault' = (fault \/ bad)
          /\ late' = (late \/ current_minute(now) # req[s].minute)
          /\ admitted' = [admitted EXCEPT ![key] = @ + 1]
          /\ Finish(s, AfterSet(s, req[s].failed \/ bad, inner, inner2))
    /\ UNCHANGED <<now, limit, redis, started, maxConc, refused, cvars, xvars>>

(* RedisCache.connect, called by the application's lifespan *)
Connect ==
    /\ last = NoResult
    /\ ~redis
    /\ redis' = TRUE
    /\ last' = NoResult
    /\ UNCHANGED <<now, limit, store, req, started, admitted, fault, late,
                   maxConc, refused, cvars, xvars>>

(* the clock advances; Redis drops the keys whose expiry has been reached *)
Tick ==
    /\ last = NoResult
    /\ now + TickSeconds <= MaxTime
    /\ now' = now + TickSeconds
    /\ store' = [k \in Keys |-> IF store[k].exp > now' THEN store[k] ELSE None]
    /\ last' = NoResult
    /\ UNCHANGED <<limit, redis, req, started, admitted, fault, late, maxConc, refused, cvars, xvars>>

(* the response or the exception leaves dispatch for the outer stages *)
Deliver ==
    /\ last # NoResult
    /\ last' = NoResult
    /\ UNCHANGED <<now, limit, redis, store, req, started, admitted, fault, late,
                   maxConc, refused, cvars, xvars>>

----------------------------------------------------------------------------
(* AdvancedCacheManager over one Redis *)

MaxCacheTime == 2       \* the cache clock stops here

default_ttl == 3600     \* AdvancedCacheManager(default_ttl=3600)

CacheKeys == {"k1", "k2"}
Tags == {"t", "u"}
Values == {"a"}
TTLs == {0, 1}          \* the ttl argument, in seconds; 0 stands for None
TagLists == {<<>>, <<"t">>, <<"u">>, <<"t", "u">>}

Persist == -1           \* the expiry of a Redis key that has no TTL

NoEntry == [val |-> <<>>, exp |-> 0]
NoSet == [members |-> {}, exp |-> 0]

(* _serialize / _deserialize of a str value: json.dumps(value).encode() and
   json.loads(value.decode()) *)
_serialize(value) == <<"json", value>>
_deserialize(bytes) == bytes[2]

(* the Redis commands the manager issues, on db = [e |-> entries, t |-> tagsets] *)
Apply(db, cmd) ==
    CASE cmd.op = "setex" ->
           [db EXCEPT !.e[cmd.key] = [val |-> cmd.val, exp |-> cnow + cmd.ttl]]
      [] cmd.op = "sadd" ->
           [db EXCEPT !.t[cmd.tag] =
               [members |-> @.members \cup {cmd.key},
                exp |-> IF @.members = {} THEN Persist ELSE @.exp]]
      [] cmd.op = "expire" ->
           [db EXCEPT !.t[cmd.tag] =
               IF @.members = {} THEN @
               ELSE [members |-> @.members, exp |-> cnow + cmd.ttl]]
      [] cmd.op = "del" ->
           [db EXCEPT !.e = [k \in CacheKeys |->
                                IF k \in cmd.keys THEN NoEntry ELSE db.e[k]]]
      [] cmd.op = "del_tag" ->
           [db EXCEPT !.t[cmd.tag] = NoSet]
      [] OTHER -> db

(* the first n commands of a list take effect, in order *)
RECURSIVE Run(_, _, _)
Run(db, cmds, n) ==
    IF n = 0 \/ cmds = <<>> THEN db
    ELSE Run(Apply(db, Head(cmds)), Tail(cmds), n - 1)

(* _set_tags: for each tag, sadd(tag_key, cache_key) then expire(tag_key, ttl) *)
RECURSIVE _set_tags(_, _, _)
_set_tags(cache_key, tags, ttl) ==
    IF tags = <<>> THEN <<>>
    ELSE <<[op |-> "sadd", tag |-> Head(tags), key |-> cache_key],
           [op |-> "expire", tag |-> Head(tags), ttl |-> ttl]>>
         \o _set_tags(cache_key, Tail(tags), ttl)

(* `ttl or self.default_ttl` *)
EffectiveTTL(ttl) == IF ttl = 0 THEN default_ttl ELSE ttl

(* set(): the commands it issues, in order *)
SetCommands(key, value, ttl, tags) ==
    <<[op |-> "setex", key |-> key, ttl |-> EffectiveTTL(ttl),
       val |-> _serialize(value)]>>
    \o _set_tags(key, tags, EffectiveTTL(ttl))

DB == [e |-> entries, t |-> tagsets]

Range(seq) == {seq[i] : i \in 1..Len(seq)}

LiveKeys == {k \in CacheKeys : entries[k] # NoEntry}

NoOp == [op |-> "none", key |-> "", tag |-> "", ret |-> 0, failed |-> FALSE,
         members |-> {}, before |-> {}, again |-> FALSE]

(* AdvancedCacheManager.initialize *)
Initialize ==
    /\ clast = NoOp
    /\ ~mgr_redis
    /\ mgr_redis' = TRUE
    /\ UNCHANGED <<cnow, entries, tagsets, lastTags, invalidated, clast, rlvars, xvars>>

(* AdvancedCacheManager.set. failAt = 0: every Redis command succeeds;
   failAt = n: the n-th command raises, the `except` returns False and the
   commands before it have taken effect. Without a connection the first
   command raises. *)
CacheSet(key, value, ttl, tags, failAt) ==
    LET cmds == SetCommands(key, value, ttl, tags)
        stop == IF ~mgr_redis THEN 1 ELSE failAt
        done == IF stop = 0 THEN Len(cmds) ELSE stop - 1
        db == Run(DB, cmds, done)
    IN /\ clast = NoOp
       /\ failAt <= Len(cmds)
       /\ invalidated' = {}
       /\ entries' = db.e
       /\ tagsets' = db.t
       /\ lastTags' = IF done = 0 THEN lastTags
                      ELSE [lastTags EXCEPT ![key] =
                               IF stop = 0 THEN Range(tags) ELSE {}]
       /\ clast' = [NoOp EXCEPT !.op = "set", !.key = key,
                                !.ret = IF stop = 0 THEN 1 ELSE 0,
                                !.failed = (stop # 0)]
       /\ UNCHANGED <<cnow, mgr_redis, rlvars, xvars>>

(* what get(key) hands back from a working Redis: the deserialized value, or
   the default, None, when Redis does not hold the key *)
Absent == "None"
GetValue(key) ==
    IF entries[key] = NoEntry THEN Absent ELSE _deserialize(entries[key].val)

(* AdvancedCacheManager.get: the value, or the default (None) on a miss or an
   error; ret is 1 when a value came back *)
CacheGet(key, ok) ==
    LET hit == mgr_redis /\ ok /\ GetValue(key) # Absent
    IN /\ clast = NoOp
       /\ clast' = [NoOp EXCEPT !.op = "get", !.key = key,
                                !.ret = IF hit THEN 1 ELSE 0,
                                !.failed = ~(mgr_redis /\ ok)]
       /\ UNCHANGED <<cnow, mgr_redis, entries, tagsets, lastTags, invalidated,
                      rlvars, xvars>>

(* AdvancedCacheManager.delete *)
CacheDelete(key, ok) ==
    LET works == mgr_redis /\ ok
    IN /\ clast = NoOp
       /\ entries' = IF works THEN [entries EXCEPT ![key] = NoEntry] ELSE entries
       /\ clast' = [NoOp EXCEPT !.op = "delete", !.key = key,
                                !.ret = IF works /\ entries[key] # NoEntry
                                        THEN 1 ELSE 0,
                                !.failed = ~works]
       /\ UNCHANGED <<cnow, mgr_redis, tagsets, lastTags, invalidated, rlvars, xvars>>

(* an invalidate_by_tag that would return the size of the tag's key-set *)
Deleted_members(cache_keys) == Cardinality(cache_keys)

(* `deleted = await self._redis.delete of the cache_keys`: the keys Redis removed *)
Deleted(cache_keys) == Cardinality({k \in cache_keys : entries[k] # NoEntry})

(* AdvancedCacheManager.invalidate_by_tag: smembers, then, if the set is not
   empty, delete of the cache_keys and delete(tag_key). failAt as for set: 1 is
   smembers, 2 the delete of the members, 3 the delete of the tag set *)
InvalidateByTag(tag, failAt) ==
    LET stop == IF ~mgr_redis THEN 1 ELSE failAt
        cache_keys == IF stop = 1 THEN {} ELSE tagsets[tag].members
        cmds == IF cache_keys = {} THEN <<>>
                ELSE <<[op |-> "del", keys |-> cache_keys],
                       [op |-> "del_tag", tag |-> tag]>>
        done == IF stop = 0 THEN Len(cmds) ELSE IF stop = 1 THEN 0 ELSE stop - 2
        db == Run(DB, cmds, done)
        raised == stop = 1 \/ (stop > 1 /\ cache_keys # {})
    IN /\ clast = NoOp
       /\ failAt > 1 => cache_keys # {}
       /\ entries' = db.e
       /\ tagsets' = db.t
       /\ invalidated' = IF raised THEN invalidated ELSE invalidated \cup {tag}
       /\ clast' = [op |-> "invalidate_by_tag", key |-> "", tag |-> tag,
                    ret |-> IF raised THEN 0 ELSE Deleted(cache_keys),
                    failed |-> raised, members |-> cache_keys,
                    before |-> LiveKeys,
                    again |-> (tag \in invalidated)]
       /\ UNCHANGED <<cnow, mgr_redis, lastTags, rlvars, xvars>>

(* a second passes; Redis drops the keys and the sets whose expiry is reached *)
CacheTick ==
    /\ clast = NoOp
    /\ cnow < MaxCacheTime
    /\ cnow' = cnow + 1
    /\ entries' = [k \in CacheKeys |->
                     IF entries[k].exp > cnow' THEN entries[k] ELSE NoEntry]
    /\ tagsets' = [g \in Tags |->
                     IF tagsets[g].exp = Persist \/ tagsets[g].exp > cnow'
                     THEN tagsets[g] ELSE NoSet]
    /\ UNCHANGED <<mgr_redis, lastTags, invalidated, clast, rlvars, xvars>>

(* the operation returns to its caller *)
Return ==
    /\ clast # NoOp
    /\ clast' = NoOp
    /\ UNCHANGED <<cnow, mgr_redis, entries, tagsets, lastTags, invalidated,
                   rlvars, xvars>>

----------------------------------------------------------------------------
(* RedisCache and CacheManager called directly, on the store of the limiter *)

StoredCounts == 0..2                \* the values written by a direct set
Expires == {0, CounterExpire}       \* the expire argument; 0 stands for None
Patterns == {"rate_limit:*", "rate_limit:10.0.0.1:0", "user:*"}

(* the keys a SCAN with MATCH pattern yields *)
scan_iter(pattern) ==
    {k \in Keys : /\ redis_get(k) # <<>>
                  /\ \/ pattern = "rate_limit:*"
                     \/ pattern = "rate_limit:10.0.0.1:0" /\ k = <<"10.0.0.1", 0>>}

(* bool(result), as the number 0 or 1 *)
Bool(b) == IF b THEN 1 ELSE 0

RcNoOp == [op |-> "none", ret |-> 0, raised |-> FALSE, connected |-> FALSE,
           reachable |-> FALSE]

RcResult(op, ret, raised, ok) ==
    [op |-> op, ret |-> ret, raised |-> raised, connected |-> redis,
     reachable |-> ok]

(* RedisCache.get *)
RcGet(key, ok) ==
    /\ rc_last = RcNoOp
    /\ rc_last' = RcResult("get", cache_get(key, ok), FALSE, ok)
    /\ UNCHANGED <<now, limit, redis, store, req, last, started, admitted, fault,
                   late, maxConc, refused, cvars, avars,
                   pvars>>

(* RedisCache.set *)
RcSet(key, value, expire, ok) ==
    /\ rc_last = RcNoOp
    /\ store' = cache_set(key, value, expire, ok)
    /\ rc_last' = RcResult("set", Bool(redis /\ ok), FALSE, ok)
    /\ UNCHANGED <<now, limit, redis, req, last, started, admitted, fault, late,
                   maxConc, refused, cvars, avars,
                   pvars>>

(* RedisCache.delete *)
RcDelete(key, ok) ==
    /\ rc_last = RcNoOp
    /\ store' = IF redis /\ ok THEN [store EXCEPT ![key] = None] ELSE store
    /\ rc_last' = RcResult("delete", Bool(redis /\ ok /\ redis_get(key) # <<>>),
                           FALSE, ok)
    /\ UNCHANGED <<now, limit, redis, req, last, started, admitted, fault, late,
                   maxConc, refused, cvars, avars,
                   pvars>>

(* RedisCache.exists *)
RcExists(key, ok) ==
    /\ rc_last = RcNoOp
    /\ rc_last' = RcResult("exists", Bool(redis /\ ok /\ redis_get(key) # <<>>),
                           FALSE, ok)
    /\ UNCHANGED <<now, limit, redis, store, req, last, started, admitted, fault,
                   late, maxConc, refused, cvars, avars,
                   pvars>>

(* CacheManager.invalidate_pattern: returns 0 when cache.redis is unset; the
   scan and the delete of the keys found are awaited outside any try, so an
   error of either leaves the call as an exception *)
invalidate_pattern(pattern, ok) ==
    IF ~redis THEN [ret |-> 0, raised |-> FALSE, store |-> store]
    ELSE IF ~ok THEN [ret |-> 0, raised |-> TRUE, store |-> store]
    ELSE [ret |-> Cardinality(scan_iter(pattern)), raised |-> FALSE,
          store |-> [k \in Keys |-> IF k \in scan_iter(pattern) THEN None
                                    ELSE store[k]]]

InvalidatePattern(pattern, ok) ==
    /\ rc_last = RcNoOp
    /\ store' = invalidate_pattern(pattern, ok).store
    /\ rc_last' = RcResult("invalidate_pattern", invalidate_pattern(pattern, ok).ret,
                           invalidate_pattern(pattern, ok).raised, ok)
    /\ UNCHANGED <<now, limit, redis, req, last, started, admitted, fault, late,
                   maxConc, refused, cvars, avars,
                   pvars>>

(* the value or the exception reaches the caller *)
RcReturn ==
    /\ rc_last # RcNoOp
    /\ rc_last' = RcNoOp
    /\ UNCHANGED <<rlvars, cvars, avars, pvars>>

----------------------------------------------------------------------------
(* Users, access tokens and the auth dependencies.  The SQL statements and  *)
(* the ORM assignments are taken to do what they spell.                     *)

MaxAuthTicks == 2       \* advances of the token clock in one behaviour
MaxPending == 2         \* coroutines suspended between SELECT and commit

access_token_expire_minutes == 15   \* settings.access_token_expire_minutes
AuthTickMinutes == (2 * access_token_expire_minutes) \div 3   \* the token clock is observed every ten minutes
HTTP_200 == 200
HTTP_400 == 400
HTTP_401 == 401
HTTP_500 == 500

ASlots == 1..MaxPending
Usernames == {"alice", "a@x.io"}    \* a username may be spelled like an address
Emails == {"a@x.io", "b@x.io"}
Passwords == {"pw1", "pw2"}        \* the passwords tried at login
RegPasswords == {"pw1"}             \* the passwords accounts are registered with
Subjects == Usernames \cup Emails
IssueTimes == {k * AuthTickMinutes : k \in 0..MaxAuthTicks}

(* get_password_hash and verify_password *)
NoHash == [alg |-> "none", of |-> ""]
get_password_hash(password) == [alg |-> "bcrypt", of |-> password]
verify_password(plain_password, hashed_password) ==
    hashed_password.alg = "bcrypt" /\ hashed_password.of = plain_password

(* a row of the users table *)
User(id, username, email, hashed_password, is_active, oauth_provider, oauth_id) ==
    [id |-> id, username |-> username, email |-> email,
     hashed_password |-> hashed_password, is_active |-> is_active,
     oauth_provider |-> oauth_provider, oauth_id |-> oauth_id]

Rows == 1..Len(users)

(* result.fetchone(): the row of lowest id among those selected, 0 for None *)
fetchone(ids) == IF ids = {} THEN 0 ELSE CHOOSE i \in ids : \A j \in ids : i <= j

SelectByUsername(username) == {i \in Rows : users[i].username = username}
SelectByEmail(email) == {i \in Rows : users[i].email = email}
(* an existence check that would look at the username alone *)
SelectByUsernameOnly(username, email) == {i \in Rows : users[i].username = username}

(* SELECT * FROM users WHERE username = :username OR email = :email *)
SelectByUsernameOrEmail(username, email) ==
    {i \in Rows : users[i].username = username \/ users[i].email = email}

(* an access token: the claims and who signed it *)
NoToken == [sub |-> "", exp |-> 0, sig |-> "none"]

(* create_access_token(subject): expiry is now plus the configured lifetime *)
create_access_token(subject) ==
    [sub |-> subject, exp |-> anow + access_token_expire_minutes, sig |-> "HS256"]

(* the credentials a client can present: any claims under the server's
   signature or under another one; sub "None" is a payload without "sub" *)
PresentedTokens ==
    [sub : Subjects \cup {Absent},
     exp : {t + access_token_expire_minutes : t \in IssueTimes},
     sig : {"HS256", "forged"}]

(* jwt.decode that would accept a token whatever its exp claim *)
jwt_decode_noexp(token) ==
    IF token.sig # "HS256" THEN [error |-> TRUE, sub |-> Absent]
    ELSE [error |-> FALSE, sub |-> token.sub]

(* a validation that would also consult the users table: tokens of an
   account with a linked OAuth provider are refused *)
jwt_decode_stateful(token) ==
    IF token.sig # "HS256" THEN [error |-> TRUE, sub |-> Absent]
    ELSE IF token.exp < anow THEN [error |-> TRUE, sub |-> Absent]
    ELSE IF \E i \in Rows : users[i].username = token.sub /\
                             users[i].oauth_provider # Absent
         THEN [error |-> TRUE, sub |-> Absent]
    ELSE [error |-> FALSE, sub |-> token.sub]

(* jwt.decode(token, secret_key, algorithms): JWTError on a signature that
   does not verify and on an exp claim in the past, else the payload *)
jwt_decode(token) ==
    IF token.sig # "HS256" THEN [error |-> TRUE, sub |-> Absent]
    ELSE IF token.exp < anow THEN [error |-> TRUE, sub |-> Absent]
    ELSE [error |-> FALSE, sub |-> token.sub]

(* what an auth operation answers: status 200 stands for a normal return *)
ANone == [op |-> "none", status |-> 0, user |-> 0, token |-> NoToken,
          cred |-> NoToken, username |-> "", email |-> "", password |-> "",
          exc |-> "", detail |-> <<>>]

AResult(op, status, user, token, cred, username, email) ==
    [op |-> op, status |-> status, user |-> user, token |-> token,
     cred |-> cred, username |-> username, email |-> email, password |-> "",
     exc |-> "", detail |-> <<>>]

(* get_current_user: the status and the row returned, 0 for no user *)
get_current_user(credentials) ==
    IF jwt_decode(credentials).error THEN [status |-> HTTP_401, user |-> 0]
    ELSE IF jwt_decode(credentials).sub = Absent THEN [status |-> HTTP_401, user |-> 0]
    ELSE IF fetchone(SelectByUsername(jwt_decode(credentials).sub)) = 0
         THEN [status |-> HTTP_401, user |-> 0]
    ELSE [status |-> HTTP_200,
          user |-> fetchone(SelectByUsername(jwt_decode(credentials).sub))]

(* a checkpoint that would answer an inactive account as unauthenticated *)
get_current_active_user_401(credentials) ==
    IF get_current_user(credentials).status # HTTP_200 THEN get_current_user(credentials)
    ELSE IF ~users[get_current_user(credentials).user].is_active
         THEN [status |-> HTTP_401, user |-> 0]
    ELSE get_current_user(credentials)

(* get_current_active_user over get_current_user *)
get_current_active_user(credentials) ==
    IF get_current_user(credentials).status # HTTP_200 THEN get_current_user(credentials)
    ELSE IF ~users[get_current_user(credentials).user].is_active
         THEN [status |-> HTTP_400, user |-> 0]
    ELSE get_current_user(credentials)

(* an optional resolver that would fail as get_current_user does whenever
   credentials are presented *)
get_current_user_optional_strict(credentials) ==
    IF credentials = NoToken THEN [status |-> HTTP_200, user |-> 0]
    ELSE get_current_user(credentials)

(* get_current_user_optional: None for no credentials, and None again where
   get_current_user raises *)
get_current_user_optional(credentials) ==
    IF credentials = NoToken THEN [status |-> HTTP_200, user |-> 0]
    ELSE IF jwt_decode(credentials).error THEN [status |-> HTTP_200, user |-> 0]
    ELSE IF jwt_decode(credentials).sub = Absent THEN [status |-> HTTP_200, user |-> 0]
    ELSE [status |-> HTTP_200,
          user |-> fetchone(SelectByUsername(jwt_decode(credentials).sub))]

(* a request to a route that depends on get_current_user *)
CurrentUser(credentials) ==
    /\ alast = ANone
    /\ alast' = AResult("get_current_user", get_current_user(credentials).status,
                        get_current_user(credentials).user, NoToken, credentials,
                        "", "")
    /\ UNCHANGED <<anow, users, watched, areq, rlvars, cvars, rcvars, pvars>>

(* a request to a route that depends on get_current_active_user *)
CurrentActiveUser(credentials) ==
    /\ alast = ANone
    /\ alast' = AResult("get_current_active_user",
                        get_current_active_user(credentials).status,
                        get_current_active_user(credentials).user, NoToken,
                        credentials, "", "")
    /\ UNCHANGED <<anow, users, watched, areq, rlvars, cvars, rcvars, pvars>>

(* a request to a route that depends on get_current_user_optional *)
CurrentUserOptional(credentials) ==
    /\ alast = ANone
    /\ alast' = AResult("get_current_user_optional",
                        get_current_user_optional(credentials).status,
                        get_current_user_optional(credentials).user, NoToken,
                        credentials, "", "")
    /\ UNCHANGED <<anow, users, watched, areq, rlvars, cvars, rcvars, pvars>>

(* the token clock advances *)
AuthTick ==
    /\ alast = ANone
    /\ anow + AuthTickMinutes <= MaxAuthTicks * AuthTickMinutes
    /\ anow' = anow + AuthTickMinutes
    /\ UNCHANGED <<users, watched, areq, alast, rlvars, cvars, rcvars, pvars>>

(* the response leaves the application *)
AReturn ==
    /\ alast # ANone
    /\ alast' = ANone
    /\ UNCHANGED <<anow, users, watched, areq, rlvars, cvars, rcvars, pvars>>

----------------------------------------------------------------------------
(* register, login and the OAuth endpoints over the users table *)

HTTP_307 == 307                     \* RedirectResponse
OAuthProviders == {"google", "gitlab"}     \* "gitlab" is not a supported provider
Supported == {"google", "github"}

(* what the provider says about the account: NoInfo when the token exchange
   raises or the answer carries no email *)
NoInfo == [email |-> "", id |-> ""]
Identities ==
    {[email |-> "a@x.io", id |-> "g-a"], [email |-> "b@x.io", id |-> "g-b"],
     [email |-> "b@x.io", id |-> "g-a"]}

AIdle == [pc |-> "idle", username |-> "", email |-> "", password |-> "",
          hashed_password |-> NoHash, provider |-> "", oauth_id |-> "",
          user |-> 0, cred |-> NoToken]

Quiet == \A s \in ASlots : areq[s].pc = "idle"

AFree == CHOOSE s \in ASlots : areq[s].pc = "idle" /\
                               \A t \in ASlots : areq[t].pc = "idle" => s <= t

(* the exception handlers main.py registers on the application *)
exception_handlers ==
    {"StarLightException", "HTTPException", "RequestValidationError", "Exception"}

(* the status the application answers an exception that leaves a route with:
   database_error_handler answers IntegrityError with 400 where it is
   registered for SQLAlchemyError, general_exception_handler answers 500 *)
ExceptionStatus(exc) ==
    IF exc = "IntegrityError" /\ "SQLAlchemyError" \in exception_handlers
    THEN HTTP_400
    ELSE HTTP_500

(* str(e): the text of an exception, which names what went wrong inside *)
str(exc) ==
    CASE exc = "IntegrityError" -> "UNIQUE constraint failed: users.email"
      [] exc = "HTTPException" -> "400: Unable to get user information from OAuth provider"
      [] OTHER -> exc

(* general_exception_handler: the body does not depend on the exception *)
general_exception_handler(exc) == <<"An internal server error occurred">>

(* the body the application answers an exception that leaves a route with *)
ExceptionDetail(exc) ==
    IF exc = "IntegrityError" /\ "SQLAlchemyError" \in exception_handlers
    THEN <<"Data integrity constraint violation">>
    ELSE general_exception_handler(exc)

(* except Exception as e: raise HTTPException(400, detail=f"{prefix}{str(e)}") *)
Reraised(result, prefix, exc) ==
    [result EXCEPT !.status = HTTP_400, !.exc = exc, !.detail = <<prefix, str(exc)>>]

(* an INSERT that the table would take whatever its columns hold *)
insert_unchecked(username, email) == FALSE

(* the unique indexes on username and on email reject the INSERT *)
insert_violates(username, email) ==
    \E i \in Rows : users[i].username = username \/ users[i].email = email

(* register, up to the await of db.commit() *)
RegisterCheck(username, email, password) ==
    /\ alast = ANone
    /\ \E s \in ASlots : areq[s].pc = "idle"
    /\ IF fetchone(SelectByUsernameOrEmail(username, email)) # 0
       THEN /\ alast' = AResult("register", HTTP_400, 0, NoToken, NoToken,
                                username, email)
            /\ UNCHANGED areq
       ELSE /\ areq' = [areq EXCEPT ![AFree] =
                           [AIdle EXCEPT !.pc = "register",
                                         !.username = username,
                                         !.email = email,
                                         !.password = password,
                                         !.hashed_password = get_password_hash(password)]]
            /\ UNCHANGED alast
    /\ UNCHANGED <<anow, users, watched, rlvars, cvars, rcvars, pvars>>

(* register, from db.commit() on: IntegrityError leaves the route uncaught *)
RegisterCommit(s) ==
    /\ alast = ANone
    /\ areq[s].pc = "register"
    /\ areq' = [areq EXCEPT ![s] = AIdle]
    /\ IF insert_violates(areq[s].username, areq[s].email)
       THEN /\ alast' = [AResult("register", ExceptionStatus("IntegrityError"), 0,
                                 NoToken, NoToken, areq[s].username, areq[s].email)
                          EXCEPT !.exc = "IntegrityError",
                                 !.detail = ExceptionDetail("IntegrityError")]
            /\ UNCHANGED users
       ELSE /\ users' = Append(users, User(Len(users) + 1, areq[s].username,
                                           areq[s].email, areq[s].hashed_password,
                                           TRUE, Absent, Absent))
            /\ alast' = [AResult("register", HTTP_200, Len(users) + 1, NoToken,
                                 NoToken, users'[Len(users) + 1].username,
                                 users'[Len(users) + 1].email)
                          EXCEPT !.password = areq[s].password]
    /\ UNCHANGED <<anow, watched, rlvars, cvars, rcvars, pvars>>

(* a login that would not look at the password *)
login_any(username, password) ==
    LET user == fetchone(SelectByUsername(username))
    IN IF user = 0
       THEN [status |-> HTTP_401, user |-> 0, token |-> NoToken]
       ELSE [status |-> HTTP_200, user |-> user,
             token |-> create_access_token(users[user].username)]

(* login: 401 for an unknown username or a password that does not verify,
   else an access token for the user's username *)
login(username, password) ==
    LET user == fetchone(SelectByUsername(username))
    IN IF user = 0 \/ ~verify_password(password, users[user].hashed_password)
       THEN [status |-> HTTP_401, user |-> 0, token |-> NoToken]
       ELSE [status |-> HTTP_200, user |-> user,
             token |-> create_access_token(users[user].username)]

(* a login request; watch says whether the holder of the token keeps it *)
Login(username, password, watch) ==
    /\ alast = ANone
    /\ watch => watched = NoToken /\ login(username, password).status = HTTP_200
    /\ alast' = [AResult("login", login(username, password).status,
                         login(username, password).user,
                         login(username, password).token, NoToken, username, "")
                  EXCEPT !.password = password]
    /\ watched' = IF watch THEN login(username, password).token ELSE watched
    /\ UNCHANGED <<anow, users, areq, rlvars, cvars, rcvars, pvars>>

(* oauth_callback, up to the await of db.commit(), or to its end where
   nothing is committed *)
CallbackCheck(provider, user_info, watch) ==
    /\ alast = ANone
    /\ watch => watched = NoToken
    /\ \E s \in ASlots : areq[s].pc = "idle"
    /\ LET user == fetchone(SelectByEmail(user_info.email))
       IN IF provider \notin Supported
          THEN /\ ~watch
               /\ alast' = [AResult("oauth_callback", HTTP_400, 0, NoToken, NoToken,
                                    "", user_info.email)
                             EXCEPT !.detail = <<"Unsupported OAuth provider">>]
               /\ UNCHANGED <<areq, watched>>
          ELSE IF user_info = NoInfo
          THEN /\ ~watch
               /\ alast' = Reraised(AResult("oauth_callback", HTTP_400, 0, NoToken,
                                            NoToken, "", user_info.email),
                                    "OAuth authentication failed: ", "HTTPException")
               /\ UNCHANGED <<areq, watched>>
          ELSE IF user = 0
          THEN /\ ~watch
               /\ areq' = [areq EXCEPT ![AFree] =
                              [AIdle EXCEPT !.pc = "callback_create",
                                            !.username = user_info.email,
                                            !.email = user_info.email,
                                            !.provider = provider,
                                            !.oauth_id = user_info.id]]
               /\ UNCHANGED <<alast, watched>>
          ELSE IF users[user].oauth_provider = Absent
          THEN /\ ~watch
               /\ areq' = [areq EXCEPT ![AFree] =
                              [AIdle EXCEPT !.pc = "callback_update",
                                            !.username = users[user].username,
                                            !.email = user_info.email,
                                            !.provider = provider,
                                            !.oauth_id = user_info.id,
                                            !.user = user]]
               /\ UNCHANGED <<alast, watched>>
          ELSE /\ alast' = AResult("oauth_callback", HTTP_307, user,
                                   create_access_token(users[user].username),
                                   NoToken, users[user].username, user_info.email)
               /\ watched' = IF watch THEN create_access_token(users[user].username)
                             ELSE watched
               /\ UNCHANGED areq
    /\ UNCHANGED <<anow, users, rlvars, cvars, rcvars, pvars>>

(* oauth_callback, from db.commit() on: any exception becomes a 400 *)
CallbackCommit(s, watch) ==
    /\ alast = ANone
    /\ watch => watched = NoToken
    /\ areq[s].pc \in {"callback_create", "callback_update"}
    /\ areq' = [areq EXCEPT ![s] = AIdle]
    /\ IF areq[s].pc = "callback_create" /\
          insert_violates(areq[s].username, areq[s].email)
       THEN /\ ~watch
            /\ alast' = Reraised(AResult("oauth_callback", HTTP_400, 0, NoToken,
                                         NoToken, areq[s].username, areq[s].email),
                                 "OAuth authentication failed: ", "IntegrityError")
            /\ UNCHANGED <<users, watched>>
       ELSE /\ users' =
                 IF areq[s].pc = "callback_create"
                 THEN Append(users, User(Len(users) + 1, areq[s].username,
                                         areq[s].email, NoHash, TRUE,
                                         areq[s].provider, areq[s].oauth_id))
                 ELSE [users EXCEPT ![areq[s].user].oauth_provider = areq[s].provider,
                                    ![areq[s].user].oauth_id = areq[s].oauth_id]
            /\ alast' = AResult("oauth_callback", HTTP_307,
                                IF areq[s].pc = "callback_create"
                                THEN Len(users) + 1 ELSE areq[s].user,
                                create_access_token(areq[s].username), NoToken,
                                areq[s].username, areq[s].email)
            /\ watched' = IF watch THEN create_access_token(areq[s].username)
                          ELSE watched
    /\ UNCHANGED <<anow, rlvars, cvars, rcvars, pvars>>

(* link_oauth_account, taken whole *)
LinkOAuthAccount(credentials, provider, user_info) ==
    /\ alast = ANone
    /\ LET current_user == get_current_user(credentials)
           existing_user ==
               fetchone({i \in Rows : /\ users[i].oauth_provider = provider
                                      /\ users[i].oauth_id = user_info.id})
       IN IF current_user.status # HTTP_200
          THEN /\ alast' = AResult("link_oauth_account", current_user.status, 0,
                                   NoToken, credentials, "", "")
               /\ UNCHANGED users
          ELSE IF provider \notin Supported
          THEN /\ alast' = [AResult("link_oauth_account", HTTP_400, 0, NoToken,
                                    credentials, "", "")
                             EXCEPT !.detail = <<"Unsupported OAuth provider">>]
               /\ UNCHANGED users
          ELSE IF \/ user_info = NoInfo
                  \/ existing_user # 0 /\ existing_user # current_user.user
          THEN /\ alast' = Reraised(AResult("link_oauth_account", HTTP_400, 0, NoToken,
                                            credentials, "", ""),
                                    "Failed to link OAuth account: ", "HTTPException")
               /\ UNCHANGED users
          ELSE /\ users' = [users EXCEPT ![current_user.user].oauth_provider = provider,
                                         ![current_user.user].oauth_id = user_info.id]
               /\ alast' = AResult("link_oauth_account", HTTP_200, current_user.user,
                                   NoToken, credentials, "", "")
    /\ UNCHANGED <<anow, watched, areq, rlvars, cvars, rcvars, pvars>>

(* unlink_oauth_account, taken whole *)
UnlinkOAuthAccount(credentials, provider) ==
    /\ alast = ANone
    /\ LET current_user == get_current_user(credentials)
       IN IF current_user.status # HTTP_200
          THEN /\ alast' = AResult("unlink_oauth_account", current_user.status, 0,
                                   NoToken, credentials, "", "")
               /\ UNCHANGED users
          ELSE IF users[current_user.user].oauth_provider # provider
          THEN /\ alast' = AResult("unlink_oauth_account", HTTP_400, 0, NoToken,
                                   credentials, "", "")
               /\ UNCHANGED users
          ELSE /\ users' = [users EXCEPT ![current_user.user].oauth_provider = Absent,
                                         ![current_user.user].oauth_id = Absent]
               /\ alast' = AResult("unlink_oauth_account", HTTP_200, current_user.user,
                                   NoToken, credentials, "", "")
    /\ UNCHANGED <<anow, watched, areq, rlvars, cvars, rcvars, pvars>>

----------------------------------------------------------------------------
(* The middleware stack main.py builds, and one request passing through it *)

(* the add_middleware calls of main.py, in the order they are made *)
AddedOrder ==
    <<"SecurityHeadersMiddleware", "LoggingMiddleware", "RateLimitMiddleware",
      "CORSMiddleware", "SessionMiddleware", "TrustedHostMiddleware">>

(* app.add_middleware(cls): user_middleware.insert(0, cls) *)
add_middleware(user_middleware, cls) == <<cls>> \o user_middleware

RECURSIVE AddAll(_, _)
AddAll(user_middleware, n) ==
    IF n > Len(AddedOrder) THEN user_middleware
    ELSE AddAll(add_middleware(user_middleware, AddedOrder[n]), n + 1)

(* build_middleware_stack, outermost stage first: the server-error stage, the
   user middleware, the exception stage, then the router *)
Stack ==
    <<"ServerErrorMiddleware">> \o AddAll(<<>>, 1) \o <<"ExceptionMiddleware", "router">>

HTTP_400_BAD_HOST == HTTP_400        \* TrustedHostMiddleware: "Invalid host header"

PIdle == [pc |-> "idle", at |-> 0, path |-> "", host_ok |-> TRUE, over |-> FALSE,
          route |-> "", route2 |-> "", status |-> 0, exc |-> "",
          headers |-> {}, retried |-> FALSE]

Stage == Stack[preq.at]

(* a request arrives at the outermost stage *)
Arrive(path, host_ok, over, route, route2) ==
    /\ preq.pc = "idle"
    /\ route # "exception" => route2 = "response"
    /\ preq' = [PIdle EXCEPT !.pc = "in", !.at = 1, !.path = path,
                             !.host_ok = host_ok, !.over = over,
                             !.route = route, !.route2 = route2]
    /\ ptrace' = <<>>
    /\ UNCHANGED <<rlvars, cvars, rcvars, avars>>

(* the stage the request is at runs up to the point where it calls the next
   stage, or answers, or raises *)
Enter ==
    /\ preq.pc = "in"
    /\ ptrace' = Append(ptrace, <<Stage, "enter">>)
    /\ preq' =
         CASE Stage = "TrustedHostMiddleware" /\ ~preq.host_ok ->
                [preq EXCEPT !.pc = "out", !.status = HTTP_400_BAD_HOST, !.at = @ - 1]
           [] Stage = "RateLimitMiddleware" /\ preq.path \notin ExemptPaths /\
              preq.over /\ ~preq.retried ->
                [preq EXCEPT !.pc = "raise", !.exc = "HTTPException",
                             !.status = HTTP_429, !.at = @ - 1]
           [] Stage = "router" ->
                LET inner == IF preq.retried THEN preq.route2 ELSE preq.route
                IN IF inner = "response"
                   THEN [preq EXCEPT !.pc = "out", !.status = InnerStatus(inner),
                                     !.at = @ - 1]
                   ELSE [preq EXCEPT !.pc = "raise",
                                     !.exc = IF inner = "http_exception"
                                             THEN "HTTPException" ELSE "Exception",
                                     !.status = InnerStatus(inner), !.at = @ - 1]
           [] OTHER -> [preq EXCEPT !.at = @ + 1]
    /\ UNCHANGED <<rlvars, cvars, rcvars, avars>>

(* the response or the exception comes back to the stage the request is at *)
Unwind ==
    /\ preq.pc \in {"out", "raise"}
    /\ preq.at >= 1
    /\ ptrace' = Append(ptrace, <<Stage, preq.pc>>)
    /\ preq' =
         CASE preq.pc = "raise" /\ Stage = "ExceptionMiddleware" /\
              preq.exc = "HTTPException" ->
                [preq EXCEPT !.pc = "out", !.exc = "", !.at = @ - 1]
           [] preq.pc = "raise" /\ Stage = "ServerErrorMiddleware" ->
                [preq EXCEPT !.pc = "out", !.exc = "", !.status = HTTP_500,
                             !.at = @ - 1]
           [] preq.pc = "raise" /\ Stage = "RateLimitMiddleware" /\
              preq.exc # "HTTPException" /\ ~preq.retried ->
                [preq EXCEPT !.pc = "in", !.exc = "", !.status = 0,
                             !.retried = TRUE, !.at = @ + 1]
           [] preq.pc = "out" /\ Stage = "LoggingMiddleware" ->
                [preq EXCEPT !.headers = @ \cup {"X-Correlation-ID"}, !.at = @ - 1]
           [] preq.pc = "out" /\ Stage = "RateLimitMiddleware" /\
              preq.path \notin ExemptPaths ->
                [preq EXCEPT !.headers = @ \cup {"X-RateLimit-Limit"}, !.at = @ - 1]
           [] preq.pc = "out" /\ Stage = "SecurityHeadersMiddleware" ->
                [preq EXCEPT !.headers = @ \cup {"X-Content-Type-Options"},
                             !.at = @ - 1]
           [] OTHER -> [preq EXCEPT !.at = @ - 1]
    /\ UNCHANGED <<rlvars, cvars, rcvars, avars>>

(* the response has left the outermost stage *)
Leave ==
    /\ preq.pc = "out"
    /\ preq.at = 0
    /\ preq' = PIdle
    /\ ptrace' = <<>>
    /\ UNCHANGED <<rlvars, cvars, rcvars, avars>>

----------------------------------------------------------------------------
LimiterInit ==
    /\ now = 0
    /\ redis = FALSE
    /\ store = [k \in Keys |-> None]
    /\ req = [s \in Slots |-> Idle]
    /\ last = NoResult
    /\ started = 0
    /\ admitted = [k \in Keys |-> 0]
    /\ fault = FALSE
    /\ late = FALSE
    /\ maxConc = [c \in Clients |-> 0]
    /\ refused = {}

CacheInit ==
    /\ cnow = 0
    /\ mgr_redis = FALSE
    /\ entries = [k \in CacheKeys |-> NoEntry]
    /\ tagsets = [g \in Tags |-> NoSet]
    /\ lastTags = [k \in CacheKeys |-> {}]
    /\ invalidated = {}
    /\ clast = NoOp

ClientInit == rc_last = RcNoOp

(* the users table as the application finds it: empty, or holding one
   account that has been deactivated *)
InitialTables ==
    {<<>>,
     <<User(1, "alice", "a@x.io", get_password_hash("pw1"), FALSE, Absent, Absent)>>}

AuthInit ==
    /\ anow = 0
    /\ users = <<>>
    /\ watched = NoToken
    /\ areq = [s \in ASlots |-> AIdle]
    /\ alast = ANone

PipelineInit ==
    /\ preq = PIdle
    /\ ptrace = <<>>

Init ==
    /\ limit \in 1..MaxLimit
    /\ LimiterInit
    /\ CacheInit
    /\ ClientInit
    /\ AuthInit
    /\ PipelineInit

Next ==
    \/ \E c \in Clients, p \in Paths : Begin(c, p)
    \/ \E s \in Slots, ok \in BOOLEAN : Get(s, ok)
    \/ \E s \in Slots, ok \in BOOLEAN, inner, inner2 \in InnerOutcomes :
          Set(s, ok, inner, inner2)
    \/ \E c \in Clients, p \in Paths, inner \in InnerOutcomes : Exempt(c, p, inner)
    \/ Deliver
    \/ Connect
    \/ Tick

Spec == Init /\ [][Next]_vars

InitCache ==
    /\ limit = 1
    /\ LimiterInit
    /\ CacheInit
    /\ ClientInit
    /\ AuthInit
    /\ PipelineInit

NextCache ==
    \/ Initialize
    \/ \E key \in CacheKeys, value \in Values, ttl \in TTLs, tags \in TagLists,
          failAt \in 0..5 : CacheSet(key, value, ttl, tags, failAt)
    \/ \E key \in CacheKeys, ok \in BOOLEAN : CacheGet(key, ok)
    \/ \E key \in CacheKeys, ok \in BOOLEAN : CacheDelete(key, ok)
    \/ \E tag \in Tags, failAt \in 0..3 : InvalidateByTag(tag, failAt)
    \/ CacheTick
    \/ Return

SpecCache == InitCache /\ [][NextCache]_vars

InitClient == InitCache

NextClient ==
    \/ \E key \in Keys, ok \in BOOLEAN : RcGet(key, ok)
    \/ \E key \in Keys, value \in StoredCounts, expire \in Expires, ok \in BOOLEAN :
          RcSet(key, value, expire, ok)
    \/ \E key \in Keys, ok \in BOOLEAN : RcDelete(key, ok)
    \/ \E key \in Keys, ok \in BOOLEAN : RcExists(key, ok)
    \/ \E pattern \in Patterns, ok \in BOOLEAN : InvalidatePattern(pattern, ok)
    \/ RcReturn
    \/ Connect
    \/ Tick

SpecClient == InitClient /\ [][NextClient]_vars

InitAuth ==
    /\ limit = 1
    /\ LimiterInit
    /\ CacheInit
    /\ ClientInit
    /\ anow = 0
    /\ users \in InitialTables
    /\ watched = NoToken
    /\ areq = [s \in ASlots |-> AIdle]
    /\ alast = ANone
    /\ PipelineInit

(* register, login and oauth_callback requests served concurrently *)
NextAuth ==
    \/ \E username \in Usernames, email \in Emails, password \in RegPasswords :
          RegisterCheck(username, email, password)
    \/ \E s \in ASlots : RegisterCommit(s)
    \/ \E username \in Subjects, password \in Passwords : Login(username, password, FALSE)
    \/ \E provider \in OAuthProviders, user_info \in Identities \cup {NoInfo} :
          CallbackCheck(provider, user_info, FALSE)
    \/ \E s \in ASlots : CallbackCommit(s, FALSE)
    \/ AReturn

SpecAuth == InitAuth /\ [][NextAuth]_vars

(* requests served one at a time, tokens presented while the clock runs *)
NextToken ==
    \/ \E username \in Usernames, email \in Emails, password \in RegPasswords :
          Quiet /\ RegisterCheck(username, email, password)
    \/ \E s \in ASlots : RegisterCommit(s)
    \/ \E username \in Subjects, password \in Passwords, watch \in BOOLEAN :
          Quiet /\ Login(username, password, watch)
    \/ \E provider \in OAuthProviders, user_info \in Identities \cup {NoInfo},
          watch \in BOOLEAN : Quiet /\ CallbackCheck(provider, user_info, watch)
    \/ \E s \in ASlots, watch \in BOOLEAN : CallbackCommit(s, watch)
    \/ \E credentials \in PresentedTokens, provider \in OAuthProviders,
          user_info \in Identities \cup {NoInfo} :
          Quiet /\ LinkOAuthAccount(credentials, provider, user_info)
    \/ \E credentials \in PresentedTokens, provider \in OAuthProviders :
          Quiet /\ UnlinkOAuthAccount(credentials, provider)
    \/ \E credentials \in PresentedTokens : Quiet /\ CurrentUser(credentials)
    \/ \E credentials \in PresentedTokens : Quiet /\ CurrentActiveUser(credentials)
    \/ \E credentials \in PresentedTokens \cup {NoToken} :
          Quiet /\ CurrentUserOptional(credentials)
    \/ Quiet /\ AuthTick
    \/ AReturn

SpecToken == InitAuth /\ [][NextToken]_vars

InitPipeline == InitCache

NextPipeline ==
    \/ \E path \in Paths, host_ok, over \in BOOLEAN, route, route2 \in InnerOutcomes :
          Arrive(path, host_ok, over, route, route2)
    \/ Enter
    \/ Unwind
    \/ Leave

SpecPipeline == InitPipeline /\ [][NextPipeline]_vars

----------------------------------------------------------------------------
(* Properties of the rate limiter *)

Key(c, m) == rate_limit_key(c, m)

(* dispatch raised the limiter's own HTTPException: call_next was never awaited *)
Rejected(r) == r.kind = "http_exception" /\ r.calls = 0

(* the stored count of a key, 0 when Redis does not hold it *)
Count(k) == IF store[k] = None THEN 0 ELSE json_loads(store[k].val)

(* the runs C1 speaks of: the client's requests never overlap, every cache call
   succeeded, and every cache call was made within the request's own minute *)
OneAtATime(c) == maxConc[c] <= 1 /\ ~fault /\ ~late

(* C1: for a client whose requests come one at a time within their minute
   bucket, with a working cache: no more than `limit` requests of a bucket
   are admitted, and a request is refused only once `limit` requests of its
   bucket have been admitted; the refusal is a 429 carrying Retry-After. *)
C1_FirstNAdmittedThenRejected ==
    \A c \in Clients :
        OneAtATime(c) =>
            /\ \A m \in Minutes : admitted[Key(c, m)] <= limit
            /\ (Rejected(last) /\ last.client = c) =>
                   /\ admitted[Key(c, last.minute)] = limit
                   /\ last.status = 429
                   /\ last.retry_after # NoHeader

C1_Witness ==
    /\ OneAtATime("10.0.0.1")
    /\ limit = 2
    /\ Rejected(last)
    /\ admitted[Key("10.0.0.1", last.minute)] = 2
    /\ last.status = 429

(* C2: the limiter never looks at the counter again between its read and its
   write: a request that read a count below the limit is admitted by its next
   step and writes the count it read plus one (or, the write failing, leaves
   the counter alone), whatever the counter holds by then. *)
C2_WriteWithoutRecheck ==
    [][\A s \in Slots :
          (req[s].pc = "set" /\ req'[s].pc # "set") =>
              LET k == Key(req[s].client, req[s].minute) IN
              /\ admitted'[k] = admitted[k] + 1
              /\ last'.calls >= 1
              /\ \/ store'[k] = store[k]
                 \/ store'[k].val = json_dumps(req[s].current_requests + 1)]_vars

(* two requests read the same count and both went through: more requests of
   one bucket admitted than the limit, with no cache failure and no rollover *)
C2_Witness ==
    /\ ~fault /\ ~late
    /\ \E k \in Keys : admitted[k] > limit /\ Count(k) <= limit
    /\ last.calls >= 1
    /\ last.current_requests < limit

(* C3: with at most k requests of a client in flight at once, no more than
   limit + (k - 1) requests of one bucket are admitted. *)
C3_OvershootBoundedByConcurrency ==
    \A c \in Clients, m \in Minutes :
        (~fault /\ ~late /\ maxConc[c] >= 1) =>
            admitted[Key(c, m)] <= limit + (maxConc[c] - 1)

(* C4: while a bucket's key exists, no write lowers the stored count. *)
C4_CounterMonotone ==
    [][\A k \in Keys :
          (store[k] # None /\ store'[k] # None) =>
              json_loads(store'[k].val) >= json_loads(store[k].val)]_vars

(* C5: a request one of whose cache calls failed, or was skipped because the
   cache is not connected, is never refused by the limiter: it goes on to the
   write and to call_next, and what it returns or raises is what call_next
   returned or raised. *)
C5_FailOpen ==
    /\ \A s \in Slots : req[s].failed => req[s].pc = "set"
    /\ last.failed =>
          /\ ~Rejected(last)
          /\ last.calls >= 1
          /\ last.kind \in InnerOutcomes
          /\ last.status # 429

(* the read failed while the bucket's counter stood at the limit *)
C5_Witness ==
    /\ last.failed
    /\ redis
    /\ last.kind = "response"
    /\ last.path \notin {"/health", "/"}
    /\ Count(Key(last.client, last.minute)) >= limit

(* C6: a request to /health or / never enters the limiter (no coroutine is
   ever suspended on cache.get or cache.set for such a path); it is handed to
   call_next exactly once, and its outcome is call_next's, without a
   rate-limit rejection and without rate-limit headers. *)
C6_ExemptBypass ==
    /\ \A s \in Slots : req[s].pc # "idle" => req[s].path \notin {"/health", "/"}
    /\ last.path \in {"/health", "/"} =>
          /\ ~last.touched
          /\ last.calls = 1
          /\ ~Rejected(last)
          /\ last.kind \in InnerOutcomes
          /\ last.rl_remaining = NoHeader

(* / is served while the client's counter of the current minute is at the limit *)
C6_Witness ==
    /\ last.path = "/"
    /\ last.kind = "response"
    /\ Count(Key(last.client, current_minute(now))) >= limit

(* C7: the Retry-After of a rejection at time `now` is the time left until
   the next minute boundary. *)
C7_RetryAfterPinnedToBoundary ==
    Rejected(last) =>
        last.retry_after = (current_minute(now) + 1) * BucketSeconds - now

(* C7 as amended: Retry-After is one bucket width whatever the time of the
   rejection; that is never less than the time left until the next minute
   boundary, and a client retrying exactly then is in the bucket after the
   one of the rejection, hence in a new bucket. *)
C7_RetryAfterOneBucket ==
    Rejected(last) =>
        /\ last.retry_after = 60
        /\ last.retry_after >= (current_minute(now) + 1) * BucketSeconds - now
        /\ current_minute(now + last.retry_after) = current_minute(now) + 1
        /\ current_minute(now + last.retry_after) > last.minute

(* a rejection in the middle of a minute *)
C7_Witness ==
    /\ Rejected(last)
    /\ now % BucketSeconds # 0
    /\ current_minute(now) = last.minute

----------------------------------------------------------------------------
(* Properties of the tag-based cache *)

(* invalidate_by_tag has just returned without a Redis error *)
Invalidated == clast.op = "invalidate_by_tag" /\ ~clast.failed

(* C8: after invalidate_by_tag(tag) returns, get on every key whose latest
   set named that tag returns absent, whatever the TTLs of the sets were and
   however much time passed before the invalidation. *)
C8_TaggedKeysAbsentAfterInvalidate ==
    Invalidated =>
        \A k \in CacheKeys : clast.tag \in lastTags[k] => GetValue(k) = Absent

(* C9: for every tag and every live key whose latest set named it, the tag's
   key-set lives at least as long as the key. *)
C9_TagSetOutlivesMembers ==
    \A g \in Tags, k \in CacheKeys :
        (g \in lastTags[k] /\ entries[k] # NoEntry) =>
            \/ tagsets[g].exp = Persist
            \/ tagsets[g].exp >= entries[k].exp

(* C10: invalidate_by_tag leaves no member key of the tag's key-set and no
   key-set behind; what it returns is the number of cache keys that went away
   (1 when the set held a single live key); with no members it returns 0 and
   removes nothing; invalidating a tag again with no set in between returns 0. *)
C10_InvalidateDeletesAndCounts ==
    Invalidated =>
        /\ \A k \in clast.members : entries[k] = NoEntry
        /\ tagsets[clast.tag] = NoSet
        /\ clast.ret = Cardinality(clast.before \ LiveKeys)
        /\ clast.before \ LiveKeys \subseteq clast.members
        /\ Cardinality(clast.members \cap clast.before) = 1 => clast.ret = 1
        /\ clast.members = {} => clast.ret = 0
        /\ clast.again => clast.ret = 0

(* the tag's key-set held two keys, one of them no longer in the cache *)
C10_Witness ==
    /\ Invalidated
    /\ clast.members = {"k1", "k2"}
    /\ clast.before = {"k1"}
    /\ clast.ret = 1

----------------------------------------------------------------------------
(* C11: every cache client operation (get, set, delete, exists, pattern-based
   invalidation) made while the store is unconnected or unreachable returns
   its miss value (None for get, False for set, delete and exists, 0 for the
   invalidation) and does not raise to its caller *)
C11_ClientNeverRaises ==
    rc_last.op # "none" /\ (~rc_last.connected \/ ~rc_last.reachable) =>
        /\ ~rc_last.raised
        /\ rc_last.ret = IF rc_last.op = "get" THEN -1 ELSE 0

----------------------------------------------------------------------------
(* the token verifies under the server's key, has not expired and names a subject *)
GoodToken(t) == t.sig = "HS256" /\ t.exp >= anow /\ t.sub # Absent

(* the row whose username is the subject of the token, 0 if there is none *)
Holder(t) == fetchone({i \in Rows : users[i].username = t.sub})

(* C12: get_current_user returns a user only for a token with a valid
   signature, unexpired, carrying a subject that is the username of an
   existing user, and then returns that user; in every other case it answers
   401 and returns no user *)
C12_ResolverReturnsUserOnlyForValidToken ==
    alast.op = "get_current_user" =>
        IF GoodToken(alast.cred) /\ Holder(alast.cred) # 0
        THEN alast.status = HTTP_200 /\ alast.user = Holder(alast.cred)
        ELSE alast.status = HTTP_401 /\ alast.user = 0

(* a token issued at login is presented and resolves to its user *)
C12_Witness ==
    /\ alast.op = "get_current_user"
    /\ alast.cred = watched
    /\ alast.status = HTTP_200
    /\ users[alast.user].username = watched.sub

(* C13 as stated: for a presented bearer token the optional resolver answers
   as the mandatory one does, so an invalid or expired token or an unknown
   subject fails with 401 *)
C13_OptionalFailsOnBadToken ==
    alast.op = "get_current_user_optional" /\ alast.cred # NoToken =>
        /\ alast.status = get_current_user(alast.cred).status
        /\ alast.user = get_current_user(alast.cred).user

(* C13 amended: the optional resolver never fails; it returns the user where
   the mandatory resolver would return one, and anonymous (None) in every
   other case: no header, a token that is invalid or expired or without a
   subject, or an unknown subject *)
C13_OptionalNeverFails ==
    alast.op = "get_current_user_optional" =>
        /\ alast.status = HTTP_200
        /\ alast.user = IF alast.cred # NoToken /\ GoodToken(alast.cred)
                        THEN Holder(alast.cred) ELSE 0

(* an expired token that was issued at login is presented and yields anonymous *)
C13_Witness ==
    /\ alast.op = "get_current_user_optional"
    /\ alast.cred = watched
    /\ watched # NoToken
    /\ watched.exp < anow
    /\ alast.status = HTTP_200
    /\ alast.user = 0

(* C15: get_current_active_user answers an inactive account with 400, not
   401, and returns the resolved user exactly when is_active is true *)
C15_InactiveRejectedWith400 ==
    alast.op = "get_current_active_user" /\
    get_current_user(alast.cred).status = HTTP_200 =>
        IF users[get_current_user(alast.cred).user].is_active
        THEN alast.status = HTTP_200 /\ alast.user = get_current_user(alast.cred).user
        ELSE alast.status = HTTP_400 /\ alast.user = 0

(* the deactivated account logs in and presents its token *)
C15_Witness ==
    /\ alast.op = "get_current_active_user"
    /\ alast.cred = watched
    /\ alast.status = HTTP_400
    /\ ~users[Holder(watched)].is_active

(* C14: a token the server has issued is accepted, with its subject, in every
   state whose time is before the token's expiry and refused in every state
   whose time is after it, whatever login, register, OAuth callback, link or
   unlink operations have run since it was issued *)
C14_TokenValidityStateless ==
    watched # NoToken =>
        /\ anow < watched.exp =>
              /\ jwt_decode(watched) = [error |-> FALSE, sub |-> watched.sub]
              /\ get_current_user(watched).status = HTTP_200
        /\ anow > watched.exp =>
              /\ jwt_decode(watched).error
              /\ get_current_user(watched).status = HTTP_401

(* a token issued before its holder's account was linked to a provider and
   before a second account was created is presented and still accepted *)
C14_Witness ==
    /\ watched # NoToken
    /\ anow > 0
    /\ anow < watched.exp
    /\ Len(users) = 2
    /\ users[Holder(watched)].oauth_provider # Absent
    /\ alast.op = "get_current_user"
    /\ alast.cred = watched
    /\ alast.status = HTTP_200

----------------------------------------------------------------------------
(* a row holds the username or the email *)
Taken(username, email) ==
    \E i \in Rows : users[i].username = username \/ users[i].email = email

(* C16: a registration request that arrives while its username or its email
   is registered never gets past the existence check, and the request that is
   answered 400 names a registered username or email, creates no user and
   leaves every row as it was *)
C16_DuplicateRegistrationRejected ==
    [][/\ \A s \in ASlots :
             areq[s].pc = "idle" /\ areq'[s].pc = "register" =>
                 ~Taken(areq'[s].username, areq'[s].email)
       /\ alast'.op = "register" /\ alast'.status = HTTP_400 /\ alast = ANone =>
             /\ Taken(alast'.username, alast'.email)
             /\ users' = users
             /\ areq' = areq]_vars

(* the email is registered under another username and the request is refused *)
C16_Witness ==
    /\ alast.op = "register"
    /\ alast.status = HTTP_400
    /\ \E i \in Rows : users[i].email = alast.email
    /\ \A i \in Rows : users[i].username # alast.username

(* C17: a registration whose username and email are unused when it commits
   succeeds, adds one row with a new id and answers with that row's username,
   email and id; while that answer stands, a login with the same username and
   password yields 200 and a token for that username; no row ever changes its
   username or password; and a login with an unknown username or a wrong
   password answers 401 without a token *)
C17_RegisterThenLogin ==
    [][/\ \A s \in ASlots :
             areq[s].pc = "register" /\ areq'[s].pc = "idle" /\
             ~Taken(areq[s].username, areq[s].email) =>
                 /\ alast'.op = "register" /\ alast'.status = HTTP_200
                 /\ alast'.user = Len(users) + 1
                 /\ Len(users') = Len(users) + 1
                 /\ alast'.username = areq[s].username
                 /\ alast'.email = areq[s].email
                 /\ users'[alast'.user].username = areq[s].username
                 /\ users'[alast'.user].email = areq[s].email
       /\ alast.op = "register" /\ alast.status = HTTP_200 =>
             /\ login(alast.username, alast.password).status = HTTP_200
             /\ login(alast.username, alast.password).token.sub = alast.username
       /\ \A i \in Rows :
             /\ users'[i].username = users[i].username
             /\ users'[i].hashed_password = users[i].hashed_password
       /\ alast'.op = "login" =>
             IF \E i \in 1..Len(users') :
                   /\ users'[i].username = alast'.username
                   /\ users'[i].hashed_password = get_password_hash(alast'.password)
             THEN /\ alast'.status = HTTP_200
                  /\ alast'.token.sub = alast'.username
                  /\ alast'.token.sig = "HS256"
                  /\ alast'.token.exp > anow'
             ELSE alast'.status = HTTP_401 /\ alast'.token = NoToken]_vars

(* an account registered in this behaviour logs in *)
C17_Witness ==
    /\ alast.op = "login"
    /\ alast.status = HTTP_200
    /\ alast.token.sub = "a@x.io"
    /\ users[alast.user].is_active
    /\ users[alast.user].hashed_password = get_password_hash(alast.password)

(* C18: a registration is never answered with a 5xx: the commit that violates
   a unique constraint is answered with a 4xx *)
C18_IntegrityViolationAnswered4xx ==
    alast.op = "register" => alast.status < HTTP_500

(* C19: no two rows of the users table share a username, and no two share an
   email *)
C19_UsernamesAndEmailsUnique ==
    \A i, j \in Rows :
        i # j => users[i].username # users[j].username /\
                 users[i].email # users[j].email

(* two accounts exist, one registered and one made by the OAuth callback, and
   a commit on a username or email taken in the meantime has been refused *)
C19_Witness ==
    /\ Len(users) = 2
    /\ \E i \in Rows : users[i].oauth_provider # Absent /\ users[i].hashed_password = NoHash
    /\ \E i \in Rows : users[i].hashed_password # NoHash
    /\ alast.op \in {"register", "oauth_callback"}
    /\ alast.status \in {HTTP_400, HTTP_500}
    /\ alast.user = 0
    /\ Taken(alast.username, alast.email)

----------------------------------------------------------------------------
(* the place of an event in the trace of the request, 0 if it did not happen *)
At(stage, event) ==
    IF \E k \in 1..Len(ptrace) : ptrace[k] = <<stage, event>>
    THEN CHOOSE k \in 1..Len(ptrace) :
             /\ ptrace[k] = <<stage, event>>
             /\ \A j \in 1..(k - 1) : ptrace[j] # <<stage, event>>
    ELSE 0

(* C20: the stages wrap in the order security headers, request logging, rate
   limiting, CORS, session, trusted host, router: a request that has entered
   the rate-limiting stage entered the request-logging stage before, and that
   one after the security-headers stage; and once the rate limiter has
   short-circuited a request, what it produced comes back through the
   request-logging and the security-headers stages before the request is done *)
C20_LoggingWrapsRateLimiting ==
    /\ At("RateLimitMiddleware", "enter") # 0 =>
          /\ At("LoggingMiddleware", "enter") # 0
          /\ At("SecurityHeadersMiddleware", "enter") # 0
          /\ At("SecurityHeadersMiddleware", "enter") < At("LoggingMiddleware", "enter")
          /\ At("LoggingMiddleware", "enter") < At("RateLimitMiddleware", "enter")
    /\ preq.at = 0 /\ preq.pc = "out" /\ At("router", "enter") = 0 /\
       At("RateLimitMiddleware", "enter") # 0 =>
          /\ At("LoggingMiddleware", "out") + At("LoggingMiddleware", "raise") # 0
          /\ At("SecurityHeadersMiddleware", "out") +
             At("SecurityHeadersMiddleware", "raise") # 0

----------------------------------------------------------------------------
(* the response has left the outermost stage of the stack *)
Responded == preq.pc = "out" /\ preq.at = 0

(* C21: every response that leaves the pipeline carries the X-Correlation-ID
   header, on success, on a rate-limit rejection, on an authentication error
   and on the 500 answered for an uncaught exception *)
C21_CorrelationIdOnEveryResponse ==
    Responded => "X-Correlation-ID" \in preq.headers

(* C22: an unexpected exception in a route is answered 500 with the same
   generic body whatever the exception was; no exception text reaches the
   client *)
C22_UnexpectedExceptionAnsweredGeneric500 ==
    alast.exc # "" =>
        /\ alast.status = HTTP_500
        /\ alast.detail = general_exception_handler(alast.exc)
        /\ str(alast.exc) \notin Range(alast.detail)

(* C23: a counter belongs to one client and one minute bucket and nothing is
   carried over: the counter of a bucket is absent until a request of that
   bucket has been admitted, so a request is never refused in a bucket where
   nothing has been admitted yet, whatever the client's count in the bucket
   before; and a counter key is gone from the cache no later than 60 seconds
   after the last write to it *)
C23_CounterPerBucketAndExpires ==
    /\ \A k \in Keys : admitted[k] = 0 => Count(k) = 0 /\ k \notin refused
    /\ \A k \in Keys : store[k] # None =>
           /\ store[k].exp > now
           /\ store[k].exp <= now + BucketSeconds

(* a client refused in bucket 0 is admitted on its first request of bucket 1
   while the counter of bucket 0 is still stored *)
C23_Witness ==
    /\ Key("10.0.0.1", 0) \in refused
    /\ Count(Key("10.0.0.1", 0)) >= limit
    /\ last.kind = "response"
    /\ last.minute = 1
    /\ last.current_requests = 0
    /\ admitted[Key("10.0.0.1", 1)] = 1

(* a response of the inner stages that dispatch has put its headers on *)
Admitted(r) == r.kind = "response" /\ r.path \notin ExemptPaths /\ r.calls = 1

(* C24: for a client whose requests come one at a time, with a working
   cache, every admitted response on a limited path carries
   X-RateLimit-Limit = the limit, X-RateLimit-Reset = the start of the next
   minute bucket, and X-RateLimit-Remaining = the limit minus the requests
   admitted in the bucket so far, this one included; Remaining is never
   negative and is 0 on the last request the bucket admits *)
C24_RateLimitHeaders ==
    \A c \in Clients :
        (OneAtATime(c) /\ Admitted(last) /\ last.client = c) =>
            /\ last.rl_limit = limit
            /\ last.rl_reset = (last.minute + 1) * BucketSeconds
            /\ last.rl_reset > now
            /\ last.rl_remaining = limit - admitted[Key(c, last.minute)]
            /\ last.rl_remaining >= 0
            /\ admitted[Key(c, last.minute)] = limit => last.rl_remaining = 0

(* the last request a bucket admits, with a limit of two *)
C24_Witness ==
    /\ OneAtATime("10.0.0.1")
    /\ Admitted(last)
    /\ limit = 2
    /\ admitted[Key("10.0.0.1", last.minute)] = 2
    /\ last.rl_remaining = 0

(* C25: the rate-limiting stage hands a request to the inner stages at most
   once, also when the inner handler raises an exception that is not an
   HTTPException *)
C25_InnerCalledAtMostOnce == last.calls <= 1

(* C26: the value stored under a counter key never exceeds the configured
   limit, whatever the interleaving of the requests: a request writes
   count + 1 only after it has read a count below the limit *)
C26_StoredCountWithinLimit == \A k \in Keys : Count(k) <= limit

(* more requests admitted than the limit, and the counter at the limit *)
C26_Witness ==
    \E k \in Keys :
        /\ admitted[k] > limit
        /\ Count(k) = limit
        /\ last.kind = "response"
        /\ last.current_requests + 1 = limit

(* C27: an OAuth identity, a provider with the id the provider gave, is
   attached to at most one user, after any sequence of callback, link and
   unlink operations *)
C27_OAuthIdentityOnOneUser ==
    \A i, j \in Rows :
        (/\ users[i].oauth_provider # Absent
         /\ users[i].oauth_provider = users[j].oauth_provider
         /\ users[i].oauth_id = users[j].oauth_id) => i = j

(* C28: every user keeps a way to log in, a password hash or a linked OAuth
   provider; unlink does not succeed for an account without a password hash *)
C28_UserKeepsAWayToLogIn ==
    /\ \A i \in Rows :
           users[i].hashed_password # NoHash \/ users[i].oauth_provider # Absent
    /\ (alast.op = "unlink_oauth_account" /\ alast.status = HTTP_200) =>
           users[alast.user].hashed_password # NoHash

(* C30: an inactive account obtains no token and performs no authenticated
   operation: login with the right password issues no token for it, and link
   and unlink refuse a valid token of an inactive user *)
C30_InactiveAccountShutOut ==
    (/\ alast.op \in {"login", "link_oauth_account", "unlink_oauth_account"}
     /\ alast.user # 0
     /\ ~users[alast.user].is_active) =>
        /\ alast.status # HTTP_200
        /\ alast.token = NoToken

(* C29: invalidate_by_tag(tag) removes only entries that carry the tag: a key
   whose most recent set named no tag or other tags, also one that was
   deleted and set again without the tag, still returns its value from get
   after the invalidation. Stated for the keys whose most recent set
   returned True and named other tags only *)
C29_InvalidateLeavesOtherEntries ==
    (clast.op = "invalidate_by_tag" /\ ~clast.failed) =>
        \A k \in clast.before :
            (lastTags[k] # {} /\ clast.tag \notin lastTags[k]) =>
                GetValue(k) # Absent

====
